---- MODULE Spec2Model ----
(***************************************************************************)
(* Model of cprorealtime.py: the RealTimeDetector pipeline.                *)
(*                                                                         *)
(* Three threads run the code: the main thread (the __main__ block, run()  *)
(* and cleanup()), the capture worker (capture_frames) and the inference   *)
(* worker (process_frames).  Every statement that reads or writes state    *)
(* another thread can touch is a step of its own, so that every            *)
(* interleaving the interpreter can produce is a behaviour of the model.   *)
(* Wall-clock time (time.time()) is the variable now, advanced by Tick.    *)
(***************************************************************************)
EXTENDS Integers, Sequences, FiniteSets, TLC

\* ---------------------------------------------------------------- bounds
MaxTime == 6        \* the clock stops advancing at this many seconds
MaxFrames == 5      \* the camera delivers at most this many frames
MaxBoxes == 3       \* a detection holds at most this many boxes
MaxFpsStart == 2    \* an FPS window opens at most this long after the last could
MaxFpsSlack == 2    \* a consumed result takes at most this many clock ticks

\* ------------------------------------------------------ program constants
FRAME_SKIP == 2
QUEUE_MAXSIZE == 2
REFRESH_SECONDS == 5
FPS_WINDOW == 30

Threads == {"main", "capture", "process"}
Statuses == {"CHECKING", "ACCESS_GRANTED", "ACCESS_DENIED"}

\* ------------------------------------------------------------ label texts
\* Strings are sequences of one-character strings, so that lower() and the
\* substring test of Python's `in` are computed and not assumed.
UpperChars == <<"A","B","C","D","E","F","G","H","I","J","K","L","M",
                "N","O","P","Q","R","S","T","U","V","W","X","Y","Z">>
LowerChars == <<"a","b","c","d","e","f","g","h","i","j","k","l","m",
                "n","o","p","q","r","s","t","u","v","w","x","y","z">>

HelmetToken == <<"h","e","l","m","e","t">>
VestToken == <<"v","e","s","t">>

\* self.model.names: the class names of the loaded model (the model file is
\* not part of the repository; these are sample class names).
ModelNames == << <<"H","a","r","d"," ","H","e","l","m","e","t">>,
                 <<"S","a","f","e","t","y","_","V","E","S","T">>,
                 <<"p","e","r","s","o","n">>,
                 <<"v","e","s","t">> >>

\* What each class name is, read by a person: does it name a helmet, a vest?
NameIsHelmet == <<TRUE, FALSE, FALSE, FALSE>>
NameIsVest == <<FALSE, TRUE, FALSE, TRUE>>

LowerChar(c) ==
    IF \E i \in 1..Len(UpperChars) : UpperChars[i] = c
    THEN LowerChars[CHOOSE i \in 1..Len(UpperChars) : UpperChars[i] = c]
    ELSE c

\* str.lower()
Lower(s) == [i \in 1..Len(s) |-> LowerChar(s[i])]

\* Python's `token in s`
Contains(token, s) ==
    \E i \in 1..(Len(s) - Len(token) + 1) :
        SubSeq(s, i, i + Len(token) - 1) = token

\* results.boxes: None (has_boxes is FALSE), or the class ids of the boxes
Detections ==
    {[has_boxes |-> FALSE, cls |-> <<>>]} \cup
    {[has_boxes |-> TRUE, cls |-> c] :
        c \in UNION { [1..n -> 1..Len(ModelNames)] : n \in 0..MaxBoxes }}

\* The detections the pipeline is run on: no boxes (None), and a vest with
\* a helmet.
SampleDetections ==
    { [has_boxes |-> FALSE, cls |-> <<>>],
      [has_boxes |-> TRUE, cls |-> <<2, 1>>] }

\* lines 81-84
LabelsOf(results) ==
    IF results.has_boxes
    THEN [i \in 1..Len(results.cls) |-> ModelNames[results.cls[i]]]
    ELSE <<>>

\* StatusOf without the lower() of lines 87-88
StatusOf_CaseSensitive(labels) ==
    LET has_helmet == \E i \in 1..Len(labels) : Contains(HelmetToken, labels[i])
        has_vest == \E i \in 1..Len(labels) : Contains(VestToken, labels[i])
    IN  IF has_helmet /\ has_vest THEN "ACCESS_GRANTED" ELSE "ACCESS_DENIED"

\* lines 87-94: the access decision of process_frames
StatusOf(labels) ==
    LET has_helmet == \E i \in 1..Len(labels) : Contains(HelmetToken, Lower(labels[i]))
        has_vest == \E i \in 1..Len(labels) : Contains(VestToken, Lower(labels[i]))
    IN  IF has_helmet /\ has_vest THEN "ACCESS_GRANTED" ELSE "ACCESS_DENIED"

\* Queue.full() and Queue.empty() of a Queue(maxsize=2)
\* Full for a queue that takes one item more than maxsize
Full_one_more(q) == Len(q) >= QUEUE_MAXSIZE + 1
Full(q) == Len(q) >= QUEUE_MAXSIZE
Empty(q) == Len(q) = 0

\* ------------------------------------------------------------------ state
VARIABLES
    pc,                  \* where each thread is
    cap,                 \* the camera: "unopened", "open" or "released"
    ser,                 \* the serial port: "None", "open" or "closed"
    running,             \* self.running
    frame_count,         \* self.frame_count
    frame_queue,         \* self.frame_queue: the capture indexes of the queued frames
    result_queue,        \* self.result_queue: (annotated frame, status, labels)
    last_detection_time, \* self.last_detection_time
    current_status,      \* self.current_status
    fps_start_time,      \* self.fps_start_time
    fps_frame_count,     \* self.fps_frame_count
    current_fps,         \* self.current_fps, as the fraction num/den
    p_frame,             \* process_frames' local frame (its capture index)
    p_status,            \* process_frames' local status
    p_labels,            \* process_frames' local labels
    now,                 \* time.time()
    sent,                \* the send_to_esp32 calls made by the last step
    lastSend,            \* the last send_to_esp32 call: its status and time
    released,            \* how often each resource has been released
    displayed            \* the capture index of the frame last shown by imshow

vars == <<pc, cap, ser, running, frame_count, frame_queue, result_queue,
          last_detection_time, current_status, fps_start_time, fps_frame_count,
          current_fps, p_frame, p_status, p_labels, now, sent, lastSend,
          released, displayed>>

processLocals == <<p_frame, p_status, p_labels>>

NoFrame == 0 - 1
NoSend == [status |-> "NONE", time |-> 0]

Goto(t, label) == pc' = [pc EXCEPT ![t] = label]

\* Init without the isOpened() test of lines 32-33: run() is entered whether
\* or not the camera opened
Init_no_camera_test ==
    /\ cap \in {"open", "unopened"}
    /\ ser \in {"open", "None"}
    /\ pc = [t \in Threads |-> IF t = "main" THEN "run" ELSE "idle"]
    /\ running = TRUE
    /\ frame_count = 0
    /\ frame_queue = <<>>
    /\ result_queue = <<>>
    /\ last_detection_time = 0
    /\ current_status = "CHECKING"
    /\ fps_start_time = 0
    /\ fps_frame_count = 0
    /\ current_fps = [num |-> 0, den |-> 1]
    /\ p_frame = NoFrame
    /\ p_status = "NONE"
    /\ p_labels = <<>>
    /\ now = 0
    /\ sent = <<>>
    /\ lastSend = NoSend
    /\ released = [camera |-> 0, serial |-> 0, display |-> 0]
    /\ displayed = NoFrame

\* lines 21-55 and 194-198: the state after RealTimeDetector() has returned or
\* raised.  The camera opens or not (line 32), the serial port opens or not
\* (lines 36-42).  When the camera did not open, the constructor raised and
\* the main block is at its finally clause.
Init ==
    /\ cap \in {"open", "unopened"}
    /\ ser \in (IF cap = "open" THEN {"open", "None"} ELSE {"None"})
    /\ pc = [t \in Threads |->
                IF t = "main" THEN (IF cap = "open" THEN "run" ELSE "finally")
                ELSE "idle"]
    /\ running = TRUE
    /\ frame_count = 0
    /\ frame_queue = <<>>
    /\ result_queue = <<>>
    /\ last_detection_time = 0
    /\ current_status = "CHECKING"
    /\ fps_start_time = 0
    /\ fps_frame_count = 0
    /\ current_fps = [num |-> 0, den |-> 1]
    /\ p_frame = NoFrame
    /\ p_status = "NONE"
    /\ p_labels = <<>>
    /\ now = 0
    /\ sent = <<>>
    /\ lastSend = NoSend
    /\ released = [camera |-> 0, serial |-> 0, display |-> 0]
    /\ displayed = NoFrame

\* time.time() advances.  The clock is read by the control loop alone, at
\* lines 147, 168 and 170; now is the value its next reading returns, so it
\* is advanced where a reading is next.
Tick ==
    /\ now < MaxTime
    /\ pc["main"] \in {"get", "refresh"}
    /\ now' = now + 1
    /\ sent' = <<>>
    /\ UNCHANGED <<pc, cap, ser, running, frame_count, frame_queue, result_queue,
                   last_detection_time, current_status, fps_start_time,
                   fps_frame_count, current_fps, p_frame, p_status, p_labels,
                   lastSend, released, displayed>>

\* ------------------------------------------------------- capture_frames
\* line 59: while self.running
capture_test ==
    /\ pc["capture"] = "test"
    /\ Goto("capture", IF running THEN "read" ELSE "done")
    /\ sent' = <<>>
    /\ UNCHANGED <<cap, ser, running, frame_count, frame_queue, result_queue,
                   last_detection_time, current_status, fps_start_time,
                   fps_frame_count, current_fps, p_frame, p_status, p_labels,
                   now, lastSend, released, displayed>>

\* lines 60-61 and 67-69: cap.read().  An open camera delivers a frame or
\* fails; a released camera delivers none.  A failed read leaves the loop.
capture_read ==
    /\ pc["capture"] = "read"
    /\ \E ret \in BOOLEAN :
          /\ ret => (cap = "open" /\ frame_count < MaxFrames)
          /\ Goto("capture", IF ret THEN "sample" ELSE "failed")
    /\ sent' = <<>>
    /\ UNCHANGED <<cap, ser, running, frame_count, frame_queue, result_queue,
                   last_detection_time, current_status, fps_start_time,
                   fps_frame_count, current_fps, p_frame, p_status, p_labels,
                   now, lastSend, released, displayed>>

\* capture_sample without the full() test of line 64
capture_sample_no_full_test ==
    /\ pc["capture"] = "sample"
    /\ IF frame_count % FRAME_SKIP = 0
       THEN /\ Goto("capture", "put")
            /\ UNCHANGED frame_count
       ELSE /\ frame_count' = frame_count + 1
            /\ Goto("capture", "test")
    /\ sent' = <<>>
    /\ UNCHANGED <<cap, ser, running, frame_queue, result_queue,
                   last_detection_time, current_status, fps_start_time,
                   fps_frame_count, current_fps, p_frame, p_status, p_labels,
                   now, lastSend, released, displayed>>

\* capture_sample with line 69 moved inside the `if` of line 66: only a
\* forwarded frame is counted
capture_sample_counts_forwarded_only ==
    /\ pc["capture"] = "sample"
    /\ IF frame_count % FRAME_SKIP = 0 /\ ~Full(frame_queue)
       THEN /\ Goto("capture", "put")
            /\ UNCHANGED frame_count
       ELSE /\ UNCHANGED frame_count
            /\ Goto("capture", "test")
    /\ sent' = <<>>
    /\ UNCHANGED <<cap, ser, running, frame_queue, result_queue,
                   last_detection_time, current_status, fps_start_time,
                   fps_frame_count, current_fps, p_frame, p_status, p_labels,
                   now, lastSend, released, displayed>>

\* lines 63-64 and 66: the stride test and the full() test; a frame that is
\* off the stride or finds the queue full is dropped.
capture_sample ==
    /\ pc["capture"] = "sample"
    /\ IF frame_count % FRAME_SKIP = 0 /\ ~Full(frame_queue)
       THEN /\ Goto("capture", "put")
            /\ UNCHANGED frame_count
       ELSE /\ frame_count' = frame_count + 1
            /\ Goto("capture", "test")
    /\ sent' = <<>>
    /\ UNCHANGED <<cap, ser, running, frame_queue, result_queue,
                   last_detection_time, current_status, fps_start_time,
                   fps_frame_count, current_fps, p_frame, p_status, p_labels,
                   now, lastSend, released, displayed>>

\* lines 65-66: frame_queue.put(frame) blocks while the queue is full
capture_put ==
    /\ pc["capture"] = "put"
    /\ ~Full(frame_queue)
    /\ frame_queue' = Append(frame_queue, frame_count)
    /\ frame_count' = frame_count + 1
    /\ Goto("capture", "test")
    /\ sent' = <<>>
    /\ UNCHANGED <<cap, ser, running, result_queue,
                   last_detection_time, current_status, fps_start_time,
                   fps_frame_count, current_fps, p_frame, p_status, p_labels,
                   now, lastSend, released, displayed>>

\* ------------------------------------------------------- process_frames
\* process_test with `while True` for the `while self.running` of line 73
process_test_ignores_running ==
    /\ pc["process"] = "test"
    /\ Goto("process", IF ~Empty(frame_queue) THEN "get" ELSE "test")
    /\ sent' = <<>>
    /\ UNCHANGED <<cap, ser, running, frame_count, frame_queue, result_queue,
                   last_detection_time, current_status, fps_start_time,
                   fps_frame_count, current_fps, p_frame, p_status, p_labels,
                   now, lastSend, released, displayed>>

\* lines 73-74: while self.running: if not self.frame_queue.empty()
process_test ==
    /\ pc["process"] = "test"
    /\ Goto("process", IF ~running THEN "done"
                       ELSE IF ~Empty(frame_queue) THEN "get" ELSE "test")
    /\ sent' = <<>>
    /\ UNCHANGED <<cap, ser, running, frame_count, frame_queue, result_queue,
                   last_detection_time, current_status, fps_start_time,
                   fps_frame_count, current_fps, p_frame, p_status, p_labels,
                   now, lastSend, released, displayed>>

\* process_get that reads the head of the queue and leaves it there
process_get_peek ==
    /\ pc["process"] = "get"
    /\ Len(frame_queue) > 0
    /\ p_frame' = Head(frame_queue)
    /\ UNCHANGED frame_queue
    /\ Goto("process", "infer")
    /\ sent' = <<>>
    /\ UNCHANGED <<cap, ser, running, frame_count, result_queue,
                   last_detection_time, current_status, fps_start_time,
                   fps_frame_count, current_fps, p_status, p_labels,
                   now, lastSend, released, displayed>>

\* line 75: frame_queue.get() blocks while the queue is empty
process_get ==
    /\ pc["process"] = "get"
    /\ Len(frame_queue) > 0
    /\ p_frame' = Head(frame_queue)
    /\ frame_queue' = Tail(frame_queue)
    /\ Goto("process", "infer")
    /\ sent' = <<>>
    /\ UNCHANGED <<cap, ser, running, frame_count, result_queue,
                   last_detection_time, current_status, fps_start_time,
                   fps_frame_count, current_fps, p_status, p_labels,
                   now, lastSend, released, displayed>>

\* lines 78-84: the model call and the labels of its boxes
process_infer ==
    /\ pc["process"] = "infer"
    /\ \E results \in SampleDetections : p_labels' = LabelsOf(results)
    /\ Goto("process", "decide")
    /\ sent' = <<>>
    /\ UNCHANGED <<cap, ser, running, frame_count, frame_queue, result_queue,
                   last_detection_time, current_status, fps_start_time,
                   fps_frame_count, current_fps, p_frame, p_status,
                   now, lastSend, released, displayed>>

\* lines 87-97: the access decision
process_decide ==
    /\ pc["process"] = "decide"
    /\ p_status' = StatusOf(p_labels)
    /\ Goto("process", "offer")
    /\ sent' = <<>>
    /\ UNCHANGED <<cap, ser, running, frame_count, frame_queue, result_queue,
                   last_detection_time, current_status, fps_start_time,
                   fps_frame_count, current_fps, p_frame, p_labels,
                   now, lastSend, released, displayed>>

\* process_offer without the full() test of line 100
process_offer_no_full_test ==
    /\ pc["process"] = "offer"
    /\ Goto("process", "put")
    /\ sent' = <<>>
    /\ UNCHANGED <<cap, ser, running, frame_count, frame_queue, result_queue,
                   last_detection_time, current_status, fps_start_time,
                   fps_frame_count, current_fps, p_frame, p_status, p_labels,
                   now, lastSend, released, displayed>>

\* line 100: if not self.result_queue.full(); a result that finds the queue
\* full is dropped
process_offer ==
    /\ pc["process"] = "offer"
    /\ IF ~Full(result_queue)
       THEN /\ Goto("process", "put")
            /\ UNCHANGED processLocals
       ELSE /\ Goto("process", "test")
            /\ UNCHANGED processLocals
    /\ sent' = <<>>
    /\ UNCHANGED <<cap, ser, running, frame_count, frame_queue, result_queue,
                   last_detection_time, current_status, fps_start_time,
                   fps_frame_count, current_fps,
                   now, lastSend, released, displayed>>

\* line 101: result_queue.put(...) blocks while the queue is full
process_put ==
    /\ pc["process"] = "put"
    /\ ~Full(result_queue)
    /\ result_queue' = Append(result_queue,
            [frame |-> p_frame, status |-> p_status, labels |-> p_labels])
    /\ UNCHANGED processLocals
    /\ Goto("process", "test")
    /\ sent' = <<>>
    /\ UNCHANGED <<cap, ser, running, frame_count, frame_queue,
                   last_detection_time, current_status, fps_start_time,
                   fps_frame_count, current_fps,
                   now, lastSend, released, displayed>>


\* ---------------------------------------------------------- send_to_esp32
\* lines 103-112.  Without an open port the call does nothing.  With one,
\* write() and flush() succeed, or write() raises before anything is written,
\* or flush() raises after the message was handed to the port; the
\* SerialException is caught inside.
\* (SendOutcomes_unguarded: the outcomes without the test of line 105.)
SendOutcomes_unguarded == {"written", "write_error", "flush_error"}

SendOutcomes == IF ser = "open" THEN {"written", "write_error", "flush_error"}
                ELSE {"noop"}

send_to_esp32(status) ==
    /\ \E outcome \in SendOutcomes :
          sent' = <<[status |-> status, outcome |-> outcome]>>
    /\ lastSend' = [status |-> status, time |-> now]

\* ---------------------------------------------------------- calculate_fps
\* line 120 divides by the elapsed time: it raises when that is zero
FpsRaises == fps_frame_count + 1 >= FPS_WINDOW /\ now - fps_start_time = 0

\* calculate_fps with > for the >= of line 117
calculate_fps_after_30 ==
    IF fps_frame_count + 1 > FPS_WINDOW
    THEN /\ current_fps' = [num |-> fps_frame_count + 1,
                            den |-> now - fps_start_time]
         /\ fps_start_time' = now
         /\ fps_frame_count' = 0
    ELSE /\ fps_frame_count' = fps_frame_count + 1
         /\ UNCHANGED <<fps_start_time, current_fps>>

\* lines 114-122
calculate_fps ==
    IF fps_frame_count + 1 >= FPS_WINDOW
    THEN IF FpsRaises
         THEN /\ fps_frame_count' = fps_frame_count + 1
              /\ UNCHANGED <<fps_start_time, current_fps>>
         ELSE /\ current_fps' = [num |-> fps_frame_count + 1,
                                 den |-> now - fps_start_time]
              /\ fps_start_time' = now
              /\ fps_frame_count' = 0
    ELSE /\ fps_frame_count' = fps_frame_count + 1
         /\ UNCHANGED <<fps_start_time, current_fps>>

\* -------------------------------------------------------------------- run
MainLoopLabels == {"loop", "get", "key", "refresh"}

\* lines 127-136: the two worker threads start
run_start ==
    /\ pc["main"] = "run"
    /\ pc' = [t \in Threads |-> IF t = "main" THEN "loop" ELSE "test"]
    /\ sent' = <<>>
    /\ UNCHANGED <<cap, ser, running, frame_count, frame_queue, result_queue,
                   last_detection_time, current_status, fps_start_time,
                   fps_frame_count, current_fps, p_frame, p_status, p_labels,
                   now, lastSend, released, displayed>>

\* lines 139-140: while self.running: if not self.result_queue.empty()
\* run_loop without the empty() test of line 140
run_loop_no_empty_test ==
    /\ pc["main"] = "loop"
    /\ Goto("main", IF ~running THEN "cleanup_running" ELSE "get")
    /\ sent' = <<>>
    /\ UNCHANGED <<cap, ser, running, frame_count, frame_queue, result_queue,
                   last_detection_time, current_status, fps_start_time,
                   fps_frame_count, current_fps, p_frame, p_status, p_labels,
                   now, lastSend, released, displayed>>

run_loop ==
    /\ pc["main"] = "loop"
    /\ Goto("main", IF ~running THEN "cleanup_running"
                    ELSE IF ~Empty(result_queue) THEN "get" ELSE "key")
    /\ sent' = <<>>
    /\ UNCHANGED <<cap, ser, running, frame_count, frame_queue, result_queue,
                   last_detection_time, current_status, fps_start_time,
                   fps_frame_count, current_fps, p_frame, p_status, p_labels,
                   now, lastSend, released, displayed>>

\* run_consume without the comparison of line 144: every result is reported
run_consume_reports_all ==
    /\ pc["main"] = "get"
    /\ Len(result_queue) > 0
    /\ LET result == Head(result_queue) IN
          /\ result_queue' = Tail(result_queue)
          /\ send_to_esp32(result.status)
          /\ current_status' = result.status
          /\ last_detection_time' = now
          /\ calculate_fps
          /\ IF FpsRaises
             THEN /\ Goto("main", "cleanup_running")
                  /\ UNCHANGED displayed
             ELSE /\ Goto("main", "key")
                  /\ displayed' = result.frame
    /\ UNCHANGED <<cap, ser, running, frame_count, frame_queue,
                   p_frame, p_status, p_labels, now, released>>

\* run_consume that takes a status over only once it has been written
run_consume_retries_failed ==
    /\ pc["main"] = "get"
    /\ Len(result_queue) > 0
    /\ LET result == Head(result_queue) IN
          /\ result_queue' = Tail(result_queue)
          /\ IF result.status # current_status
             THEN /\ send_to_esp32(result.status)
                  /\ current_status' = IF sent'[1].outcome = "written"
                                       THEN result.status ELSE current_status
                  /\ last_detection_time' = now
             ELSE /\ sent' = <<>>
                  /\ UNCHANGED <<lastSend, current_status, last_detection_time>>
          /\ calculate_fps
          /\ IF FpsRaises
             THEN /\ Goto("main", "cleanup_running")
                  /\ UNCHANGED displayed
             ELSE /\ Goto("main", "key")
                  /\ displayed' = result.frame
    /\ UNCHANGED <<cap, ser, running, frame_count, frame_queue,
                   p_frame, p_status, p_labels, now, released>>

\* lines 141-161: result_queue.get() (blocks while the queue is empty), the
\* report of a changed status, calculate_fps and the display
run_consume ==
    /\ pc["main"] = "get"
    /\ Len(result_queue) > 0
    /\ LET result == Head(result_queue) IN
          /\ result_queue' = Tail(result_queue)
          /\ IF result.status # current_status
             THEN /\ send_to_esp32(result.status)
                  /\ current_status' = result.status
                  /\ last_detection_time' = now
             ELSE /\ sent' = <<>>
                  /\ UNCHANGED <<lastSend, current_status, last_detection_time>>
          /\ calculate_fps
          /\ IF FpsRaises
             THEN /\ Goto("main", "cleanup_running")
                  /\ UNCHANGED displayed
             ELSE /\ Goto("main", "key")
                  /\ displayed' = result.frame
    /\ UNCHANGED <<cap, ser, running, frame_count, frame_queue,
                   p_frame, p_status, p_labels, now, released>>

\* lines 164-165: cv2.waitKey(1); the quit key leaves the loop
run_key ==
    /\ pc["main"] = "key"
    /\ \E quit \in BOOLEAN :
          Goto("main", IF quit THEN "cleanup_running" ELSE "refresh")
    /\ sent' = <<>>
    /\ UNCHANGED <<cap, ser, running, frame_count, frame_queue, result_queue,
                   last_detection_time, current_status, fps_start_time,
                   fps_frame_count, current_fps, p_frame, p_status, p_labels,
                   now, lastSend, released, displayed>>

\* run_refresh with >= for the > of line 168
run_refresh_at_5 ==
    /\ pc["main"] = "refresh"
    /\ IF now - last_detection_time >= REFRESH_SECONDS
       THEN /\ send_to_esp32(current_status)
            /\ last_detection_time' = now
       ELSE /\ sent' = <<>>
            /\ UNCHANGED <<lastSend, last_detection_time>>
    /\ Goto("main", "loop")
    /\ UNCHANGED <<cap, ser, running, frame_count, frame_queue, result_queue,
                   current_status, fps_start_time, fps_frame_count, current_fps,
                   p_frame, p_status, p_labels, now, released, displayed>>

\* run_refresh with the SerialException of lines 111-112 left uncaught: it
\* ends the loop through the finally clause of line 175
run_refresh_error_escapes ==
    /\ pc["main"] = "refresh"
    /\ IF now - last_detection_time > REFRESH_SECONDS
       THEN /\ send_to_esp32(current_status)
            /\ last_detection_time' = now
            /\ Goto("main", IF sent'[1].outcome \in {"write_error", "flush_error"}
                            THEN "cleanup_running" ELSE "loop")
       ELSE /\ sent' = <<>>
            /\ UNCHANGED <<lastSend, last_detection_time>>
            /\ Goto("main", "loop")
    /\ UNCHANGED <<cap, ser, running, frame_count, frame_queue, result_queue,
                   current_status, fps_start_time, fps_frame_count, current_fps,
                   p_frame, p_status, p_labels, now, released, displayed>>

\* lines 168-170: the periodic status update
run_refresh ==
    /\ pc["main"] = "refresh"
    /\ IF now - last_detection_time > REFRESH_SECONDS
       THEN /\ send_to_esp32(current_status)
            /\ last_detection_time' = now
       ELSE /\ sent' = <<>>
            /\ UNCHANGED <<lastSend, last_detection_time>>
    /\ Goto("main", "loop")
    /\ UNCHANGED <<cap, ser, running, frame_count, frame_queue, result_queue,
                   current_status, fps_start_time, fps_frame_count, current_fps,
                   p_frame, p_status, p_labels, now, released, displayed>>

\* lines 172-176: Ctrl-C anywhere in the loop ends it
run_interrupt ==
    /\ pc["main"] \in MainLoopLabels
    /\ Goto("main", "cleanup_running")
    /\ sent' = <<>>
    /\ UNCHANGED <<cap, ser, running, frame_count, frame_queue, result_queue,
                   last_detection_time, current_status, fps_start_time,
                   fps_frame_count, current_fps, p_frame, p_status, p_labels,
                   now, lastSend, released, displayed>>

\* ---------------------------------------------------------------- cleanup
\* lines 180-181
cleanup_running ==
    /\ pc["main"] = "cleanup_running"
    /\ running' = FALSE
    /\ Goto("main", "cleanup_cap")
    /\ sent' = <<>>
    /\ UNCHANGED <<cap, ser, frame_count, frame_queue, result_queue,
                   last_detection_time, current_status, fps_start_time,
                   fps_frame_count, current_fps, p_frame, p_status, p_labels,
                   now, lastSend, released, displayed>>

\* lines 183-184
cleanup_cap ==
    /\ pc["main"] = "cleanup_cap"
    /\ IF cap = "open"
       THEN /\ cap' = "released"
            /\ released' = [released EXCEPT !.camera = @ + 1]
       ELSE UNCHANGED <<cap, released>>
    /\ Goto("main", "cleanup_ser")
    /\ sent' = <<>>
    /\ UNCHANGED <<ser, running, frame_count, frame_queue, result_queue,
                   last_detection_time, current_status, fps_start_time,
                   fps_frame_count, current_fps, p_frame, p_status, p_labels,
                   now, lastSend, displayed>>

\* lines 186-187
cleanup_ser ==
    /\ pc["main"] = "cleanup_ser"
    /\ IF ser = "open"
       THEN /\ ser' = "closed"
            /\ released' = [released EXCEPT !.serial = @ + 1]
       ELSE UNCHANGED <<ser, released>>
    /\ Goto("main", "cleanup_windows")
    /\ sent' = <<>>
    /\ UNCHANGED <<cap, running, frame_count, frame_queue, result_queue,
                   last_detection_time, current_status, fps_start_time,
                   fps_frame_count, current_fps, p_frame, p_status, p_labels,
                   now, lastSend, displayed>>

\* lines 189-190: cv2.destroyAllWindows()
cleanup_windows ==
    /\ pc["main"] = "cleanup_windows"
    /\ released' = [released EXCEPT !.display = @ + 1]
    /\ Goto("main", "finally")
    /\ sent' = <<>>
    /\ UNCHANGED <<cap, ser, running, frame_count, frame_queue, result_queue,
                   last_detection_time, current_status, fps_start_time,
                   fps_frame_count, current_fps, p_frame, p_status, p_labels,
                   now, lastSend, displayed>>

\* lines 199-200: the main block's finally: cv2.destroyAllWindows()
main_finally ==
    /\ pc["main"] = "finally"
    /\ released' = [released EXCEPT !.display = @ + 1]
    /\ Goto("main", "exit")
    /\ sent' = <<>>
    /\ UNCHANGED <<cap, ser, running, frame_count, frame_queue, result_queue,
                   last_detection_time, current_status, fps_start_time,
                   fps_frame_count, current_fps, p_frame, p_status, p_labels,
                   now, lastSend, displayed>>

\* ---------------------------------------------------------- specification
CaptureStep == capture_test \/ capture_read \/ capture_sample \/ capture_put
ProcessStep ==
    \/ process_test \/ process_get \/ process_infer \/ process_decide
    \/ process_offer \/ process_put
CleanupStep == cleanup_running \/ cleanup_cap \/ cleanup_ser \/ cleanup_windows
MainStep ==
    \/ run_start \/ run_loop \/ run_consume \/ run_key \/ run_refresh
    \/ CleanupStep \/ main_finally

Next == Tick \/ CaptureStep \/ ProcessStep \/ MainStep \/ run_interrupt

Spec == Init /\ [][Next]_vars

\* The pipeline with its scheduling: every thread that can take a step
\* eventually takes one.  Nothing makes a key be pressed or Ctrl-C arrive.
\* No thread's control flow but the refresh reads the clock, which is held
\* still here.
NextUntimed == CaptureStep \/ ProcessStep \/ MainStep \/ run_interrupt

FairSpec ==
    /\ Init
    /\ [][NextUntimed]_vars
    /\ WF_vars(CaptureStep)
    /\ WF_vars(ProcessStep)
    /\ WF_vars(MainStep)

\* The access decision on its own: the inference worker holds the labels of
\* its first frame, whatever the model returned for it, and decides.
InitStatus ==
    /\ cap = "open"
    /\ ser \in {"open", "None"}
    /\ pc = [t \in Threads |->
                IF t = "main" THEN "loop" ELSE IF t = "capture" THEN "test"
                ELSE "decide"]
    /\ running = TRUE
    /\ frame_count = 1
    /\ frame_queue = <<>>
    /\ result_queue = <<>>
    /\ last_detection_time = 0
    /\ current_status = "CHECKING"
    /\ fps_start_time = 0
    /\ fps_frame_count = 0
    /\ current_fps = [num |-> 0, den |-> 1]
    /\ p_frame = 0
    /\ p_status = "NONE"
    /\ p_labels \in {LabelsOf(results) : results \in Detections}
    /\ now = 0
    /\ sent = <<>>
    /\ lastSend = NoSend
    /\ released = [camera |-> 0, serial |-> 0, display |-> 0]
    /\ displayed = NoFrame

NextStatus == process_decide

SpecStatus == InitStatus /\ [][NextStatus]_vars


\* The FPS accumulator on its own: the control loop is about to consume a
\* result, with any number of results counted in the open window.  A result
\* takes a camera frame and an inference, which is longer than a tick of the
\* clock: the clock has advanced at least once for every result consumed.
\* The window is the first one, or the second, the first having closed when
\* it could at the earliest or up to MaxFpsStart ticks later.
FpsStarts == {0} \cup (FPS_WINDOW .. FPS_WINDOW + MaxFpsStart)

InitFps ==
    /\ cap = "open"
    /\ ser \in {"open", "None"}
    /\ pc = [t \in Threads |-> IF t = "main" THEN "get" ELSE "test"]
    /\ running = TRUE
    /\ fps_frame_count \in 0 .. FPS_WINDOW - 1
    /\ fps_start_time \in FpsStarts
    /\ current_fps = IF fps_start_time = 0 THEN [num |-> 0, den |-> 1]
                     ELSE [num |-> FPS_WINDOW, den |-> fps_start_time]
    /\ \E slack \in 1..MaxFpsSlack : now = fps_start_time + fps_frame_count + slack
    /\ \E results \in SampleDetections :
          /\ p_labels = LabelsOf(results)
          /\ p_status = StatusOf(LabelsOf(results))
    /\ LET consumed == (IF fps_start_time = 0 THEN 0 ELSE FPS_WINDOW) + fps_frame_count
       IN  /\ p_frame = FRAME_SKIP * consumed
           /\ frame_count = FRAME_SKIP * consumed + 1
           /\ displayed = IF consumed = 0 THEN NoFrame
                          ELSE FRAME_SKIP * (consumed - 1)
           /\ current_status \in (IF consumed = 0 THEN {"CHECKING"}
                                  ELSE {"ACCESS_GRANTED", "ACCESS_DENIED"})
           /\ last_detection_time = IF consumed = 0 THEN 0 ELSE now - 1
           /\ lastSend = IF consumed = 0 THEN NoSend
                         ELSE [status |-> current_status, time |-> now - 1]
    /\ result_queue = <<[frame |-> p_frame, status |-> p_status, labels |-> p_labels]>>
    /\ frame_queue = <<>>
    /\ sent = <<>>
    /\ released = [camera |-> 0, serial |-> 0, display |-> 0]

NextFps == run_consume \/ run_key \/ run_refresh \/ run_loop

SpecFps == InitFps /\ [][NextFps]_vars

\* ================================================================ claims
Written == {"written", "flush_error"}

\* the steps of the control loop, told by what they change
ConsumeStep ==
    /\ pc["main"] = "get"
    /\ pc'["main"] # "get"
    /\ Len(result_queue') < Len(result_queue)
RefreshStep == pc["main"] = "refresh" /\ pc'["main"] = "loop"
CameraReadStep == pc["capture"] = "read" /\ pc'["capture"] # "read"

\* C1: the consume step calls send_to_esp32 exactly once for a result whose
\* status differs from current_status, and current_status is that status
\* afterwards; it calls it not at all for a result of the same status; every
\* other call is made by the periodic refresh.
C1_SendOncePerChange ==
    [][ /\ ConsumeStep =>
            LET result == Head(result_queue) IN
                IF result.status # current_status
                THEN /\ Len(sent') = 1
                     /\ sent'[1].status = result.status
                     /\ current_status' = result.status
                ELSE /\ sent' = <<>>
                     /\ current_status' = current_status
        /\ sent' # <<>> =>
              \/ ConsumeStep
              \/ /\ RefreshStep
                 /\ Len(sent') = 1
                 /\ sent'[1].status = current_status
      ]_vars

\* C1 witness: a changed status has just been consumed and sent
C1_Witness ==
    /\ pc["main"] = "key"
    /\ Len(sent) = 1
    /\ sent[1].status = current_status
    /\ current_status = "ACCESS_GRANTED"

\* C2: every message written to the serial line carries ACCESS_GRANTED or
\* ACCESS_DENIED; CHECKING is never written.
C2_NeverWritesChecking ==
    \A i \in 1..Len(sent) :
        sent[i].outcome \in Written =>
            sent[i].status \in {"ACCESS_GRANTED", "ACCESS_DENIED"}

\* C3: a failed camera read leads to the shutdown of the whole pipeline:
\* running becomes false, the control loop ends and cleanup() runs.
C3_ReadFailureShutsDown ==
    (pc["capture"] = "failed") ~> (~running /\ pc["main"] \in {"finally", "exit"})

\* C4: a refresh check that finds more than 5 seconds elapsed since
\* last_detection_time sends current_status once and resets
\* last_detection_time, one that does not sends nothing; and two consecutive
\* sends of the same status are more than 5 seconds apart.
C4_PeriodicRefresh ==
    [][ /\ RefreshStep =>
            IF now - last_detection_time > 5
            THEN /\ Len(sent') = 1
                 /\ sent'[1].status = current_status
                 /\ last_detection_time' = now
            ELSE /\ sent' = <<>>
                 /\ last_detection_time' = last_detection_time
        /\ (sent' # <<>> /\ sent'[1].status = lastSend.status) =>
              now - lastSend.time > 5
      ]_vars

\* C4 witness: the refresh has just re-sent a status that a consumed result
\* had set
C4_Witness ==
    /\ pc["main"] = "loop"
    /\ Len(sent) = 1
    /\ sent[1].status = "ACCESS_GRANTED"
    /\ last_detection_time = now

WorkerStopped(t) == pc[t] \in {"done", "failed"}

\* C5: once the control loop has been left, both workers stop: a worker that
\* tests running after it was cleared leaves its loop, and both workers
\* eventually have terminated.
C5_QuitStopsWorkers ==
    /\ [][ \A t \in {"capture", "process"} :
              (~running /\ pc[t] = "test" /\ pc'[t] # "test") => pc'[t] = "done"
         ]_vars
    /\ (pc["main"] = "cleanup_running") ~>
          (WorkerStopped("capture") /\ WorkerStopped("process"))

\* C5 witness: after a quit both workers have left their loops on the flag
C5_Witness ==
    /\ pc["main"] = "exit"
    /\ ~running
    /\ pc["capture"] = "done"
    /\ pc["process"] = "done"

\* C6: over a whole run that opened them, the camera, the serial connection
\* and the display are each released exactly once.
C6_ReleasedExactlyOnce ==
    /\ \A r \in DOMAIN released : released[r] <= 1
    /\ (pc["main"] = "exit" /\ cap # "unopened") =>
          /\ released.camera = 1
          /\ ser # "None" => released.serial = 1
          /\ released.display = 1

\* C7: shutdown is ordered: capture stops, then the camera is released, then
\* the serial connection is closed, then the display is closed.  Once the
\* camera has been released the capture worker reads it no more and enqueues
\* no frame, and nothing is sent once the serial connection has been closed.
C7_OrderedShutdown ==
    [][ /\ cap = "released" =>
              /\ ~CameraReadStep
              /\ Len(frame_queue') <= Len(frame_queue)
        /\ ser = "closed" => sent' = <<>>
        /\ released.serial > 0 => cap # "open"
        /\ (released.display > 0 /\ cap # "unopened") =>
              (cap = "released" /\ ser # "open")
      ]_vars

\* What a person reads off the labels: is one of them a helmet, one a vest?
NamesA(labels, table) ==
    \E i \in 1..Len(labels) : \E k \in 1..Len(ModelNames) :
        labels[i] = ModelNames[k] /\ table[k]

\* C8: the decision is ACCESS_GRANTED exactly when some label names a helmet
\* and some label names a vest, whatever the case of the letters, and
\* ACCESS_DENIED otherwise, the empty label list included; it is never
\* CHECKING.
C8_StatusIffHelmetAndVest ==
    pc["process"] = "offer" =>
        /\ p_status \in {"ACCESS_GRANTED", "ACCESS_DENIED"}
        /\ p_status = "ACCESS_GRANTED" <=>
              (NamesA(p_labels, NameIsHelmet) /\ NamesA(p_labels, NameIsVest))
        /\ p_labels = <<>> => p_status = "ACCESS_DENIED"

\* C8 witness: a helmet and a vest in upper and mixed case were granted
C8_Witness ==
    /\ pc["process"] = "offer"
    /\ p_labels = <<ModelNames[2], ModelNames[1]>>
    /\ p_status = "ACCESS_GRANTED"

\* C9: frame_queue.put is reached only with a free slot in the queue, so it
\* never blocks; a sampled frame that finds the queue full is discarded, the
\* queue is left as it was and capture goes on to its next read.
C9_CaptureNeverBlocks ==
    /\ [] (pc["capture"] = "put" => Len(frame_queue) < 2)
    /\ [][ (/\ pc["capture"] = "sample"
            /\ pc'["capture"] # "sample"
            /\ frame_count % 2 = 0
            /\ Len(frame_queue) >= 2) =>
                /\ frame_queue' = frame_queue
                /\ frame_count' = frame_count + 1
                /\ pc'["capture"] = "test"
         ]_vars

\* C9 witness: frame 4 found frames 0 and 2 still queued and was discarded
C9_Witness ==
    /\ pc["capture"] = "test"
    /\ frame_queue = <<0, 2>>
    /\ frame_count = 5

\* C10: result_queue.put is reached only with a free slot in the queue, so
\* it never blocks; a result that finds the queue full is dropped, the queue
\* is left as it was and the worker goes on to its next frame.
C10_InferenceNeverBlocks ==
    /\ [] (pc["process"] = "put" => Len(result_queue) < 2)
    /\ [][ (/\ pc["process"] = "offer"
            /\ pc'["process"] # "offer"
            /\ Len(result_queue) >= 2) =>
                /\ result_queue' = result_queue
                /\ pc'["process"] = "test"
         ]_vars

\* C10 witness: the result of frame 4 found the results of frames 0 and 2
\* still queued and was dropped
C10_Witness ==
    /\ pc["process"] = "test"
    /\ p_frame = 4
    /\ Len(result_queue) = 2
    /\ result_queue[1].frame = 0
    /\ result_queue[2].frame = 2

SendErrors == {"write_error", "flush_error"}

\* C11: without a serial port every send_to_esp32 call writes nothing, and
\* the control loop goes on as with one: a changed status is still recorded
\* with its time, and the periodic refresh still fires and resets its timer.
C11_NoSerialNoOp ==
    [][ ser = "None" =>
          /\ \A i \in 1..Len(sent') : sent'[i].outcome = "noop"
          /\ ser' = "None"
          /\ ConsumeStep =>
                LET result == Head(result_queue) IN
                    /\ Len(result_queue') = Len(result_queue) - 1
                    /\ result.status # current_status =>
                          /\ Len(sent') = 1
                          /\ current_status' = result.status
                          /\ last_detection_time' = now
                    /\ pc'["main"] = "key"
          /\ (RefreshStep /\ now - last_detection_time > 5) =>
                /\ Len(sent') = 1
                /\ last_detection_time' = now
      ]_vars

\* C11 witness: without a port, the refresh has just re-sent, to no effect,
\* a status that a consumed result had set
C11_Witness ==
    /\ ser = "None"
    /\ pc["main"] = "loop"
    /\ Len(sent) = 1
    /\ sent[1].outcome = "noop"
    /\ sent[1].status = "ACCESS_DENIED"
    /\ current_status = "ACCESS_DENIED"

\* C12: a serial error during a send stays inside send_to_esp32: the control
\* loop goes on to the step it would have reached after a good send, running
\* stays set, the port stays open, and the status and the time are recorded
\* as after a good send, so that the next send is attempted as usual.
C12_SerialErrorIsLocal ==
    [][ (Len(sent') = 1 /\ sent'[1].outcome \in SendErrors) =>
          /\ running' = running
          /\ ser' = "open"
          /\ last_detection_time' = now
          /\ current_status' = sent'[1].status
          /\ lastSend' = [status |-> sent'[1].status, time |-> now]
          /\ \/ ConsumeStep /\ pc'["main"] = "key"
             \/ RefreshStep
      ]_vars

\* C12 witness: flush() has just failed in a refresh, and the loop goes on
C12_Witness ==
    /\ pc["main"] = "loop"
    /\ Len(sent) = 1
    /\ sent[1].outcome = "flush_error"
    /\ running
    /\ ser = "open"

\* C13: when the camera did not open, run() is never entered: no worker is
\* started, no frame is read or queued and no status is ever sent.
C13_NoCameraNoRun ==
    cap = "unopened" =>
        /\ pc["main"] \in {"finally", "exit"}
        /\ pc["capture"] = "idle"
        /\ pc["process"] = "idle"
        /\ frame_count = 0
        /\ frame_queue = <<>>
        /\ result_queue = <<>>
        /\ sent = <<>>
        /\ lastSend = NoSend

\* C13 witness: the process has ended without the camera ever opening
C13_Witness ==
    /\ cap = "unopened"
    /\ pc["main"] = "exit"

\* C14: the FPS counter is reset to 0, and the window start set to the
\* current time, at the 30th result consumed in a window and at no other
\* time; the counter is in 0..29 between the steps of the control loop, and
\* the FPS of a window is 30 over the time the window took.
C14_FpsWindow ==
    /\ [] (fps_frame_count \in 0..29)
    /\ [][ IF ConsumeStep
           THEN IF fps_frame_count = 29
                THEN /\ fps_frame_count' = 0
                     /\ fps_start_time' = now
                     /\ current_fps' = [num |-> 30, den |-> now - fps_start_time]
                     /\ now - fps_start_time > 0
                ELSE /\ fps_frame_count' = fps_frame_count + 1
                     /\ fps_start_time' = fps_start_time
                     /\ current_fps' = current_fps
           ELSE /\ fps_frame_count' = fps_frame_count
                /\ fps_start_time' = fps_start_time
                /\ current_fps' = current_fps
         ]_vars

\* C14 witness: the 30th result of the second window has just been consumed
C14_Witness ==
    /\ pc["main"] = "key"
    /\ fps_frame_count = 0
    /\ fps_start_time = now
    /\ current_fps.num = 30
    /\ current_fps.den = now - 30
    /\ displayed = 118

\* C15: the frame queue and the result queue never hold more than 2 items.
C15_QueuesBounded ==
    /\ Len(frame_queue) <= 2
    /\ Len(result_queue) <= 2

\* C15 witness: the result queue is at its capacity while a frame waits
C15_Witness ==
    /\ Len(result_queue) = 2
    /\ Len(frame_queue) = 1
    /\ pc["process"] = "test"

\* a frame is held by the inference worker between its get and its put
InFlight == pc["process"] \in {"infer", "decide", "offer", "put"}

\* one iteration of the capture loop that read a frame comes to its end
CaptureIterationEnds ==
    /\ pc["capture"] \in {"sample", "put"}
    /\ pc'["capture"] = "test"

\* C16: every frame handed to inference has an index that is a multiple of
\* FRAME_SKIP, and frame_count goes up by exactly one for every frame read,
\* be it skipped, enqueued or discarded at a full queue, and never otherwise.
C16_StrideAndCount ==
    /\ [] /\ \A i \in 1..Len(frame_queue) : frame_queue[i] % FRAME_SKIP = 0
          /\ InFlight => p_frame % FRAME_SKIP = 0
          /\ \A i \in 1..Len(result_queue) : result_queue[i].frame % FRAME_SKIP = 0
          /\ displayed # NoFrame => displayed % FRAME_SKIP = 0
    /\ [][ /\ CaptureIterationEnds => frame_count' = frame_count + 1
           /\ frame_count' # frame_count => CaptureIterationEnds
           /\ frame_queue' # frame_queue /\ Len(frame_queue') > Len(frame_queue)
                 => frame_queue' = Append(frame_queue, frame_count)
         ]_vars

\* C16 witness: frames 1 and 3 were skipped, 0 and 2 enqueued, 4 discarded
\* at the full queue, and all five were counted
C16_Witness ==
    /\ frame_count = 5
    /\ frame_queue = <<0, 2>>
    /\ pc["capture"] = "read"
    /\ pc["process"] = "test"

\* the capture worker has been started and has not left its loop
CaptureLive == pc["capture"] \notin {"idle", "done", "failed"}

\* C17: the reported status, the time of the last report and the FPS
\* accumulator change only in steps of the control loop, the steps of the
\* capture and inference workers leave them unchanged, and nothing but the
\* running flag and the two queues is shared between the threads: the camera
\* the capture worker reads is not changed by the control loop under it.
C17_ReportingOwnedByMain ==
    [][ /\ (pc'["main"] = pc["main"] \/ pc'["capture"] # pc["capture"]
                                     \/ pc'["process"] # pc["process"])
              => /\ current_status' = current_status
                 /\ last_detection_time' = last_detection_time
                 /\ lastSend' = lastSend
                 /\ fps_start_time' = fps_start_time
                 /\ fps_frame_count' = fps_frame_count
                 /\ current_fps' = current_fps
        /\ cap' # cap => ~CaptureLive
      ]_vars

\* the frames in the pipeline, oldest first: the one last displayed, the
\* queued results, the frame under inference, the queued frames
Pipeline ==
    (IF displayed = NoFrame THEN <<>> ELSE <<displayed>>)
    \o [i \in 1..Len(result_queue) |-> result_queue[i].frame]
    \o (IF InFlight THEN <<p_frame>> ELSE <<>>)
    \o frame_queue

\* C18: a result carries the index of the one frame it was computed from, a
\* frame that was read; the frames of the pipeline are in strictly increasing
\* capture order, so none is there twice; and each result consumed is of a
\* later frame than the one consumed before it.
C18_OnePassInOrder ==
    /\ [] /\ \A i \in 1..Len(Pipeline) : Pipeline[i] \in 0..frame_count
          /\ \A i \in 1..Len(Pipeline) : Pipeline[i] = frame_count => pc["capture"] = "put"
          /\ \A i, j \in 1..Len(Pipeline) : i < j => Pipeline[i] < Pipeline[j]
          /\ pc["process"] \in {"offer", "put"} => p_status = StatusOf(p_labels)
    /\ [][ /\ ConsumeStep => /\ displayed' = Head(result_queue).frame
                             /\ displayed' > displayed
           /\ displayed' # displayed => ConsumeStep
           /\ Len(result_queue') > Len(result_queue) =>
                 result_queue' = Append(result_queue,
                     [frame |-> p_frame, status |-> p_status, labels |-> p_labels])
         ]_vars

\* C18 witness: the result of frame 2 has been consumed after that of frame
\* 0, and the result of frame 4 waits
C18_Witness ==
    /\ pc["main"] = "key"
    /\ displayed = 2
    /\ Len(result_queue) = 1
    /\ result_queue[1].frame = 4
    /\ frame_queue = <<>>

\* C19: a get() that follows a test for a non-empty queue finds the queue
\* non-empty: the inference worker at frame_queue.get() and the control loop
\* at result_queue.get() have an item to take in every interleaving, and the
\* control loop goes from its get() to the key check, and from the key check
\* to the refresh check unless it leaves the loop.
C19_CheckThenGetNeverBlocks ==
    /\ [] (pc["process"] = "get" => ~Empty(frame_queue))
    /\ [] (pc["main"] = "get" => ~Empty(result_queue))
    /\ [][ /\ (pc["main"] = "get" /\ pc'["main"] # "get")
                 => (ConsumeStep /\ pc'["main"] = "key") \/ pc'["main"] = "cleanup_running"
           /\ (pc["main"] = "loop" /\ pc'["main"] # "loop")
                 => pc'["main"] \in {"get", "key", "cleanup_running"}
           /\ (pc["main"] = "key" /\ pc'["main"] # "key")
                 => pc'["main"] \in {"refresh", "cleanup_running"}
         ]_vars

\* C19 witness: both consumers stand at their get() at once while both
\* producers are active
C19_Witness ==
    /\ pc["main"] = "get"
    /\ pc["process"] = "get"
    /\ pc["capture"] = "put"
    /\ Len(result_queue) = 1
    /\ Len(frame_queue) = 1

\* C20: current_status is CHECKING until the first result is consumed and
\* ACCESS_GRANTED or ACCESS_DENIED from then on; a result with another status
\* sets it whatever became of the send, a result with the same status sends
\* nothing, and nothing but such a change and the periodic refresh sends.
C20_StatusLifecycle ==
    /\ [] (displayed = NoFrame => current_status = "CHECKING")
    /\ [] (displayed # NoFrame => current_status \in {"ACCESS_GRANTED", "ACCESS_DENIED"})
    /\ [][ /\ current_status # "CHECKING" => current_status' # "CHECKING"
           /\ ConsumeStep =>
                 LET result == Head(result_queue) IN
                    /\ current_status' = result.status
                    /\ IF result.status # current_status
                       THEN /\ Len(sent') = 1
                            /\ sent'[1].status = result.status
                            /\ sent'[1].outcome \in {"written", "noop"} \cup SendErrors
                       ELSE sent' = <<>>
           /\ current_status' # current_status => ConsumeStep
           /\ sent' # <<>> =>
                 \/ ConsumeStep /\ Head(result_queue).status # current_status
                 \/ RefreshStep /\ now - last_detection_time > 5
         ]_vars

\* C20 witness: the send of a changed status failed, the status was taken
\* over all the same, and a result with that status waits
C20_Witness ==
    /\ pc["main"] = "key"
    /\ Len(sent) = 1
    /\ sent[1].outcome = "write_error"
    /\ sent[1].status = "ACCESS_DENIED"
    /\ current_status = "ACCESS_DENIED"
    /\ Len(result_queue) = 1
    /\ result_queue[1].status = "ACCESS_DENIED"

====
